---- MODULE Spec2Model ----
(***************************************************************************)
(* The resource pages of ducker: src/pages/containers.rs (Containers) and  *)
(* src/pages/images.rs (Images).  Each page owns a snapshot of the         *)
(* daemon's resources, a ratatui TableState selection and a confirmation   *)
(* modal; the host hands it one Key at a time through Page::update.        *)
(*                                                                         *)
(* One action models one whole call of a Page method (update, initialise,  *)
(* set_visible, set_invisible): the methods take &mut self and every       *)
(* await inside them is awaited before they return, so nothing else        *)
(* touches the page's fields while a call runs.  The daemon is outside     *)
(* the program: it changes between calls (DaemonChange).                   *)
(*                                                                         *)
(* Encodings.  Option<T> is a sequence of length 0 (None) or 1 (Some).     *)
(* A usize is written as the integer it holds; the one value above the     *)
(* small ones the model needs, usize::MAX - k (the result of 0 - 1 in a    *)
(* build without overflow checks), is written -(k+1), and ULt compares    *)
(* the two forms the way unsigned comparison does.                         *)
(* A container or image record is its identifier: every other field is     *)
(* only displayed.  The daemon always reports an identifier.               *)
(***************************************************************************)
EXTENDS Integers, Sequences, FiniteSets, TLC

VARIABLES
    page,      \* the page this behaviour exercises: the two pages share no state
    daemon,    \* what the daemon's list call would return now
    cont,      \* the fields of Containers
    img,       \* the fields of Images
    crashed,   \* a panic has unwound the page's task
    ev         \* the last call of a Page method: what it was given, did and returned

vars == <<page, daemon, cont, img, crashed, ev>>

(* ------------------------------ bounds -------------------------------- *)

\* Identifiers the daemon can hold (and so the longest list).
NumIds == 2
\* How far below usize::MAX a wrapped selection may be walked by up/k.
MaxWrap == 1

Ids == 1..NumIds

(* ------------------------------ Option -------------------------------- *)

None == <<>>
Some(x) == <<x>>
IsSome(o) == Len(o) = 1
Get(o) == o[1]

(* ------------------------------ usize --------------------------------- *)

\* a < b on usize, where a negative integer n stands for usize::MAX + 1 + n.
ULt(a, b) == IF (a < 0) = (b < 0) THEN a < b ELSE b < 0

(* ------------------------------ lists --------------------------------- *)

Injective(q) == \A i, j \in 1..Len(q) : q[i] = q[j] => i = j

\* Every list of distinct identifiers: what list_containers can return.
Lists == { q \in UNION { [1..n -> Ids] : n \in 0..NumIds } : Injective(q) }

Without(q, id) == SelectSeq(q, LAMBDA x : x /= id)

\* Vec::get: the element at a usize index (0-based), if there is one.
VecGet(q, i) == IF i >= 0 /\ i < Len(q) THEN Some(q[i + 1]) ELSE None

(* ------------------------------- keys --------------------------------- *)

UP_KEY == "Up"
DOWN_KEY == "Down"
A_KEY == "a"
J_KEY == "j"
K_KEY == "k"
D_KEY == "d"
R_KEY == "r"
S_KEY == "s"
G_KEY == "g"
SHIFT_G_KEY == "G"
CTRL_D_KEY == "ctrl-d"
\* The keys the confirmation modal recognises, and a key nothing binds.
YES_KEY == "y"
NO_KEY == "n"
OTHER_KEY == "x"

Keys == { UP_KEY, DOWN_KEY, A_KEY, J_KEY, K_KEY, D_KEY, R_KEY, S_KEY, G_KEY,
          SHIFT_G_KEY, CTRL_D_KEY, YES_KEY, NO_KEY, OTHER_KEY }

(* ------------------------- backend outcomes --------------------------- *)

\* start, stop, remove: success or one of the daemon's failures.
Outcomes == { "Ok", "NotFound", "Conflict", "Unknown" }

\* What a call is given besides the key: whether each list call succeeds,
\* how the mutating call ends, and what 0 - 1 on a usize does in this build.
Inputs == [ l1 : BOOLEAN, m : Outcomes, l2 : BOOLEAN, ovf : {"panic", "wrap"} ]

\* The inputs a call given `key` can tell apart: the mutating call's outcome
\* is read only for the keys that can issue one, the second list call only
\* after a mutation that succeeded, the overflow only by shift-g.
InputsFor(key) ==
    { in \in Inputs :
        /\ key \notin {R_KEY, S_KEY, A_KEY, YES_KEY} => in.m = "Ok" /\ in.l2
        /\ in.m /= "Ok" => in.l2
        /\ ~in.l1 => in.m = "Ok" /\ in.l2 /\ in.ovf = "wrap"
        /\ key /= SHIFT_G_KEY => in.ovf = "wrap" }

(* ------------------- confirmation modal (containers) ------------------ *)

Invisible == [ state |-> "Invisible", message |-> None, res |-> "-" ]
Waiting(msg) == [ state |-> "Waiting", message |-> Some(msg), res |-> "-" ]
Complete(r) == [ state |-> "Complete", message |-> None, res |-> r ]

\* ConfirmationModal::initialise: show the prompt and wait for an answer.
Modal_initialise(m, msg) == Waiting(msg)

\* ConfirmationModal::reset
Modal_reset(m) == Invisible

\* ConfirmationModal::update: the affirmative or the negative key resolves
\* the modal and is consumed; any other key is not consumed.
Modal_update(m, key) ==
    IF m.state = "Waiting" /\ key = YES_KEY
    THEN [ modal |-> Complete("Yes"), resp |-> "Consumed" ]
    ELSE IF m.state = "Waiting" /\ key = NO_KEY
    THEN [ modal |-> Complete("No"), resp |-> "Consumed" ]
    ELSE [ modal |-> m, resp |-> "NotConsumed" ]

(* --------------------------- a running call --------------------------- *)
(* The state a method threads through its statements: the page's fields   *)
(* (p), the daemon (d), how the call stands (out: run, err for an Err     *)
(* returned through ?, panic), its MessageResponse (resp), and the record *)
(* of what it did: the backend calls in order (calls) and the modal       *)
(* values assigned in order, after the one it started with (trace).       *)

Call(op, id, res) == [ op |-> op, id |-> id, res |-> res ]

Begin(p, d) ==
    [ p |-> p, d |-> d, out |-> "run", resp |-> "-", calls |-> <<>>,
      trace |-> <<p.modal>> ]

\* return Ok(resp), unless the call has already ended in an Err or a panic.
Return(s, resp) == IF s.out = "run" THEN [ s EXCEPT !.resp = resp ] ELSE s

\* An assignment to the page's modal.
SetModal(s, m) == [ s EXCEPT !.p.modal = m, !.trace = Append(@, m) ]

\* A mutating call on the daemon: only a successful remove changes its list.
Backend(s, op, id, res) ==
    [ s EXCEPT !.calls = Append(@, Call(op, id, res)),
               !.d = IF op = "remove" /\ res = "Ok" THEN Without(@, id) ELSE @ ]

(* ----------------------------- Containers ----------------------------- *)
(* cont = [visible, list (the field containers), selected (list_state's   *)
(* selection), modal (delete_modal)].                                      *)

\* Containers::new(false, docker)
Containers_new ==
    [ visible |-> FALSE, list |-> <<>>, selected |-> None, modal |-> Invisible ]

\* A refresh that blanks the page when the list call fails.
Containers_refresh_blank(s, ok) ==
    IF ok
    THEN [ s EXCEPT !.p.list = s.d, !.calls = Append(@, Call("list", 0, "Ok")) ]
    ELSE [ s EXCEPT !.p.list = <<>>, !.p.selected = None, !.out = "err",
                    !.calls = Append(@, Call("list", 0, "Unavailable")) ]

\* Containers::refresh: the list call's Err leaves through ? before the
\* assignment to self.containers.
Containers_refresh(s, ok) ==
    IF ok
    THEN [ s EXCEPT !.p.list = s.d, !.calls = Append(@, Call("list", 0, "Ok")) ]
    ELSE [ s EXCEPT !.out = "err", !.calls = Append(@, Call("list", 0, "Unavailable")) ]

Containers_increment_list(p) ==
    IF ~IsSome(p.selected)
    THEN [ p EXCEPT !.selected = Some(0) ]
    ELSE IF Len(p.list) /= 0 /\ ULt(Get(p.selected), Len(p.list) - 1)
         THEN [ p EXCEPT !.selected = Some(Get(p.selected) + 1) ]
         ELSE p

Containers_decrement_list(p) ==
    IF ~IsSome(p.selected)
    THEN [ p EXCEPT !.selected = Some(0) ]
    ELSE IF ULt(0, Get(p.selected))
         THEN [ p EXCEPT !.selected = Some(Get(p.selected) - 1) ]
         ELSE p

\* A get_container that answers with a default record when nothing resolves.
Containers_get_container_default(p) ==
    IF IsSome(p.selected) /\ IsSome(VecGet(p.list, Get(p.selected)))
    THEN VecGet(p.list, Get(p.selected))
    ELSE Some(0)

\* Containers::get_container: Ok(record) as Some(record), the bail! as None.
Containers_get_container(p) ==
    IF IsSome(p.selected) THEN VecGet(p.list, Get(p.selected)) ELSE None

\* A delete_container that does not refresh after the remove.
Containers_delete_container_stale(s, in) ==
    LET c == Containers_get_container(s.p)
    IN  IF ~IsSome(c) THEN s
        ELSE LET s1 == Backend(s, "remove", Get(c), in.m)
             IN  IF in.m /= "Ok" THEN [ s1 EXCEPT !.out = "panic" ] ELSE s1

\* Containers::delete_container: remove's Err is unwrapped, which panics.
Containers_delete_container(s, in) ==
    LET c == Containers_get_container(s.p)
    IN  IF ~IsSome(c) THEN s
        ELSE LET s1 == Backend(s, "remove", Get(c), in.m)
             IN  IF in.m /= "Ok" THEN [ s1 EXCEPT !.out = "panic" ]
                 ELSE Containers_refresh(s1, in.l2)

\* A start, stop or attach that does not refresh after its call.
Containers_mutate_stale(s, op, in) ==
    LET c == Containers_get_container(s.p)
    IN  IF ~IsSome(c) THEN s
        ELSE LET s1 == Backend(s, op, Get(c), in.m)
             IN  IF in.m /= "Ok" THEN [ s1 EXCEPT !.out = "err" ] ELSE s1

\* start_container, stop_container and attach_container: the same body
\* around one call on the daemon, whose Err leaves through ?.
Containers_mutate(s, op, in) ==
    LET c == Containers_get_container(s.p)
    IN  IF ~IsSome(c) THEN s
        ELSE LET s1 == Backend(s, op, Get(c), in.m)
             IN  IF in.m /= "Ok" THEN [ s1 EXCEPT !.out = "err" ]
                 ELSE Containers_refresh(s1, in.l2)

Containers_start_container(s, in) == Containers_mutate(s, "start", in)

Containers_stop_container(s, in) == Containers_mutate(s, "stop", in)

\* Containers::attach_container calls docker.stop_container.
Containers_attach_container(s, in) == Containers_mutate(s, "stop", in)

\* An Invisible branch whose catch-all arm consumes the key.
Containers_update_invisible_greedy(s, key, in) ==
    CASE key \in {UP_KEY, K_KEY} ->
            Return([ s EXCEPT !.p = Containers_decrement_list(@) ], "Consumed")
      [] key \in {DOWN_KEY, J_KEY} ->
            Return([ s EXCEPT !.p = Containers_increment_list(@) ], "Consumed")
      [] key = D_KEY ->
            LET c == Containers_get_container(s.p)
            IN  IF IsSome(c)
                THEN Return(SetModal(s, Modal_initialise(s.p.modal, Get(c))), "Consumed")
                ELSE Return(s, "NotConsumed")
      [] key = R_KEY -> Return(Containers_start_container(s, in), "Consumed")
      [] key = S_KEY -> Return(Containers_stop_container(s, in), "Consumed")
      [] key = A_KEY -> Return(Containers_attach_container(s, in), "Consumed")
      [] key = G_KEY -> Return([ s EXCEPT !.p.selected = Some(0) ], "Consumed")
      [] key = SHIFT_G_KEY ->
            IF Len(s.p.list) = 0 /\ in.ovf = "panic"
            THEN [ s EXCEPT !.out = "panic" ]
            ELSE Return([ s EXCEPT !.p.selected = Some(Len(s.p.list) - 1) ], "Consumed")
      [] OTHER -> Return(s, "Consumed")

\* update, ModalState::Invisible: the key is the page's.
Containers_update_invisible(s, key, in) ==
    CASE key \in {UP_KEY, K_KEY} ->
            Return([ s EXCEPT !.p = Containers_decrement_list(@) ], "Consumed")
      [] key \in {DOWN_KEY, J_KEY} ->
            Return([ s EXCEPT !.p = Containers_increment_list(@) ], "Consumed")
      [] key = D_KEY ->
            LET c == Containers_get_container(s.p)
            IN  IF IsSome(c)
                THEN Return(SetModal(s, Modal_initialise(s.p.modal, Get(c))), "Consumed")
                ELSE Return(s, "NotConsumed")
      [] key = R_KEY -> Return(Containers_start_container(s, in), "Consumed")
      [] key = S_KEY -> Return(Containers_stop_container(s, in), "Consumed")
      [] key = A_KEY -> Return(Containers_attach_container(s, in), "Consumed")
      [] key = G_KEY -> Return([ s EXCEPT !.p.selected = Some(0) ], "Consumed")
      [] key = SHIFT_G_KEY ->
            IF Len(s.p.list) = 0 /\ in.ovf = "panic"
            THEN [ s EXCEPT !.out = "panic" ]
            ELSE Return([ s EXCEPT !.p.selected = Some(Len(s.p.list) - 1) ], "Consumed")
      [] OTHER -> Return(s, "NotConsumed")

\* A Waiting branch that deletes on either answer.
Containers_update_waiting_eager(s, key, in) ==
    LET u == Modal_update(s.p.modal, key)
        s1 == IF u.modal = s.p.modal THEN s ELSE SetModal(s, u.modal)
    IN  IF u.resp = "Consumed" /\ s1.p.modal.state = "Complete"
        THEN LET s2 == Containers_delete_container(s1, in)
             IN  IF s2.out = "run"
                 THEN Return(SetModal(s2, Modal_reset(s2.p.modal)), u.resp)
                 ELSE s2
        ELSE Return(s1, u.resp)

\* update, ModalState::Waiting: the key is the modal's; a Yes deletes.
Containers_update_waiting(s, key, in) ==
    LET u == Modal_update(s.p.modal, key)
        s1 == IF u.modal = s.p.modal THEN s ELSE SetModal(s, u.modal)
    IN  IF u.resp = "Consumed" /\ s1.p.modal.state = "Complete"
        THEN IF s1.p.modal.res = "Yes"
             THEN LET s2 == Containers_delete_container(s1, in)
                  IN  IF s2.out = "run"
                      THEN Return(SetModal(s2, Modal_reset(s2.p.modal)), u.resp)
                      ELSE s2
             ELSE Return(SetModal(s1, Modal_reset(s1.p.modal)), u.resp)
        ELSE Return(s1, u.resp)

\* update, ModalState::Complete
Containers_update_complete(s, key, in) ==
    Return(SetModal(s, Modal_reset(s.p.modal)), "NotConsumed")

\* A match that hands the key to the page while the modal is waiting.
Containers_dispatch_unrouted(s, key, in) ==
    IF s.p.modal.state = "Complete"
    THEN Containers_update_complete(s, key, in)
    ELSE Containers_update_invisible(s, key, in)

\* The match on the modal's state.
Containers_dispatch(s, key, in) ==
    CASE s.p.modal.state = "Invisible" -> Containers_update_invisible(s, key, in)
      [] s.p.modal.state = "Waiting" -> Containers_update_waiting(s, key, in)
      [] s.p.modal.state = "Complete" -> Containers_update_complete(s, key, in)

\* An update that drops the result of its refresh and goes on to the key.
Containers_update_lenient(p, d, key, in) ==
    IF ~p.visible
    THEN Return(Begin(p, d), "NotConsumed")
    ELSE LET s1 == Containers_refresh(Begin(p, d), in.l1)
         IN  Containers_dispatch([ s1 EXCEPT !.out = "run" ], key, in)

\* An update that does not look at self.visible.
Containers_update_unchecked(p, d, key, in) ==
    LET s1 == Containers_refresh(Begin(p, d), in.l1)
    IN  IF s1.out /= "run" THEN s1 ELSE Containers_dispatch(s1, key, in)

\* Page::update for Containers
Containers_update(p, d, key, in) ==
    IF ~p.visible
    THEN Return(Begin(p, d), "NotConsumed")
    ELSE LET s1 == Containers_refresh(Begin(p, d), in.l1)
         IN  IF s1.out /= "run" THEN s1 ELSE Containers_dispatch(s1, key, in)

\* Page::initialise for Containers
Containers_initialise(s, in) ==
    Return(Containers_refresh([ s EXCEPT !.p.selected = Some(0) ], in.l1), "Ok")

\* Page::set_visible for Containers
Containers_set_visible(p, d, in) ==
    Containers_initialise(Begin([ p EXCEPT !.visible = TRUE ], d), in)

\* A set_invisible that also closes the modal.
Containers_set_invisible_closing(p, d) ==
    Return(Begin([ p EXCEPT !.visible = FALSE, !.modal = Invisible ], d), "Ok")

\* Page::set_invisible for Containers
Containers_set_invisible(p, d) ==
    Return(Begin([ p EXCEPT !.visible = FALSE ], d), "Ok")

(* --------------------- confirmation modal (images) -------------------- *)
(* ConfirmationModal<bool, ModalTypes>: its state, the prompt, the answer  *)
(* and the callback it was given, which is the image DeleteImage holds.    *)

\* ConfirmationModal::new("Delete", ModalTypes::DeleteImage)
ImageModal_new == [ state |-> "Closed", message |-> None, res |-> "-", cb |-> None ]

\* ConfirmationModal::initialise(message, cb)
ImageModal_initialise(m, msg, cb) ==
    [ m EXCEPT !.state = "Open", !.message = Some(msg), !.cb = Some(cb) ]

\* ConfirmationModal::update: the affirmative or the negative key resolves
\* the modal and is consumed; any other key is not consumed.
ImageModal_update(m, key) ==
    IF m.state = "Open" /\ key = YES_KEY
    THEN [ modal |-> [ m EXCEPT !.state = "Resolved", !.res = "Yes" ], resp |-> "Consumed" ]
    ELSE IF m.state = "Open" /\ key = NO_KEY
    THEN [ modal |-> [ m EXCEPT !.state = "Resolved", !.res = "No" ], resp |-> "Consumed" ]
    ELSE [ modal |-> m, resp |-> "NotConsumed" ]

(* ------------------------------- Images ------------------------------- *)
(* img = [visible, list (the field images), selected (list_state's         *)
(* selection), modal (an Option)].                                         *)

\* Images::new(docker)
Images_new ==
    [ visible |-> FALSE, list |-> <<>>, selected |-> None, modal |-> None ]

\* Images::refresh
Images_refresh(s, ok) ==
    IF ok
    THEN [ s EXCEPT !.p.list = s.d, !.calls = Append(@, Call("list", 0, "Ok")) ]
    ELSE [ s EXCEPT !.out = "err", !.calls = Append(@, Call("list", 0, "Unavailable")) ]

Images_increment_list(p) ==
    IF ~IsSome(p.selected)
    THEN [ p EXCEPT !.selected = Some(0) ]
    ELSE IF Len(p.list) /= 0 /\ ULt(Get(p.selected), Len(p.list) - 1)
         THEN [ p EXCEPT !.selected = Some(Get(p.selected) + 1) ]
         ELSE p

Images_decrement_list(p) ==
    IF ~IsSome(p.selected)
    THEN [ p EXCEPT !.selected = Some(0) ]
    ELSE IF ULt(0, Get(p.selected))
         THEN [ p EXCEPT !.selected = Some(Get(p.selected) - 1) ]
         ELSE p

\* Images::get_image: Ok(record) as Some(record), the bail! as None.
Images_get_image(p) ==
    IF IsSome(p.selected) THEN VecGet(p.list, Get(p.selected)) ELSE None

\* Images::delete_image: a new modal, opened on the selected image, replaces
\* self.modal; Err (here out = "err") when nothing is selected.
Images_delete_image(s) ==
    LET i == Images_get_image(s.p)
    IN  IF IsSome(i)
        THEN SetModal(s, Some(ImageModal_initialise(ImageModal_new, Get(i), Get(i))))
        ELSE [ s EXCEPT !.out = "err" ]

\* update, a modal that is Open: the key is the modal's.
Images_update_open(s, key) ==
    LET u == ImageModal_update(Get(s.p.modal), key)
        s1 == IF u.modal = Get(s.p.modal) THEN s ELSE SetModal(s, Some(u.modal))
    IN  Return(s1, u.resp)

\* update, no modal that is Open: the key is the page's.
Images_update_keys(s, key) ==
    CASE key \in {UP_KEY, K_KEY} ->
            Return([ s EXCEPT !.p = Images_decrement_list(@) ], "Consumed")
      [] key \in {DOWN_KEY, J_KEY} ->
            Return([ s EXCEPT !.p = Images_increment_list(@) ], "Consumed")
      [] key = CTRL_D_KEY ->
            LET s1 == Images_delete_image(s)
            IN  IF s1.out = "run" THEN Return(s1, "Consumed") ELSE Return(s, "NotConsumed")
      [] OTHER -> Return(s, "NotConsumed")

\* Whether update hands the key to the modal.
Images_modal_open(p) == IsSome(p.modal) /\ Get(p.modal).state = "Open"

\* Page::update for Images
Images_update(p, d, key, in) ==
    IF ~p.visible
    THEN Return(Begin(p, d), "NotConsumed")
    ELSE LET s1 == Images_refresh(Begin(p, d), in.l1)
         IN  IF s1.out /= "run" THEN s1
             ELSE IF Images_modal_open(s1.p) THEN Images_update_open(s1, key)
             ELSE Images_update_keys(s1, key)

\* Page::initialise for Images
Images_initialise(s, in) ==
    Return(Images_refresh([ s EXCEPT !.p.selected = Some(0) ], in.l1), "Ok")

\* Page::set_visible for Images
Images_set_visible(p, d, in) ==
    Images_initialise(Begin([ p EXCEPT !.visible = TRUE ], d), in)

\* Page::set_invisible for Images
Images_set_invisible(p, d) ==
    Return(Begin([ p EXCEPT !.visible = FALSE ], d), "Ok")

(* ------------------------------ the host ------------------------------ *)

\* What a finished call leaves in ev.
Event(op, key, s) ==
    [ op |-> op, key |-> key,
      resp |-> CASE s.out = "run" -> s.resp [] s.out = "err" -> "Err" [] OTHER -> "Panic",
      calls |-> s.calls, trace |-> s.trace ]

NoEvent(op) ==
    [ op |-> op, key |-> "-", resp |-> "-", calls |-> <<>>, trace |-> <<>> ]

\* A wrapped selection is walked at most MaxWrap below usize::MAX.
WithinWrap(p) == IsSome(p.selected) => Get(p.selected) >= -(MaxWrap + 1)

Finish(op, key, s) ==
    /\ WithinWrap(s.p)
    /\ daemon' = s.d
    /\ crashed' = (s.out = "panic")
    /\ ev' = Event(op, key, s)

Init ==
    /\ page \in {"containers", "images"}
    /\ daemon \in Lists
    /\ cont = Containers_new
    /\ img = Images_new
    /\ crashed = FALSE
    /\ ev = NoEvent("new")

\* Another client of the daemon creates, removes or reorders resources.
DaemonChange ==
    /\ ~crashed
    /\ \E d \in Lists \ {daemon} : daemon' = d
    /\ ev' = NoEvent("daemon")
    /\ UNCHANGED <<page, cont, img, crashed>>

ContainersUpdate ==
    /\ page = "containers" /\ ~crashed
    /\ \E key \in Keys : \E in \in InputsFor(key) :
          LET s == Containers_update(cont, daemon, key, in)
          IN  cont' = s.p /\ Finish("update", key, s)
    /\ UNCHANGED <<page, img>>

ContainersInitialise ==
    /\ page = "containers" /\ ~crashed
    /\ \E in \in InputsFor("-") :
          LET s == Containers_initialise(Begin(cont, daemon), in)
          IN  cont' = s.p /\ Finish("initialise", "-", s)
    /\ UNCHANGED <<page, img>>

ContainersSetVisible ==
    /\ page = "containers" /\ ~crashed
    /\ \E in \in InputsFor("-") :
          LET s == Containers_set_visible(cont, daemon, in)
          IN  cont' = s.p /\ Finish("set_visible", "-", s)
    /\ UNCHANGED <<page, img>>

ContainersSetInvisible ==
    /\ page = "containers" /\ ~crashed
    /\ LET s == Containers_set_invisible(cont, daemon)
       IN  cont' = s.p /\ Finish("set_invisible", "-", s)
    /\ UNCHANGED <<page, img>>

ImagesUpdate ==
    /\ page = "images" /\ ~crashed
    /\ \E key \in Keys : \E in \in InputsFor("-") :
          LET s == Images_update(img, daemon, key, in)
          IN  img' = s.p /\ Finish("update", key, s)
    /\ UNCHANGED <<page, cont>>

ImagesInitialise ==
    /\ page = "images" /\ ~crashed
    /\ \E in \in InputsFor("-") :
          LET s == Images_initialise(Begin(img, daemon), in)
          IN  img' = s.p /\ Finish("initialise", "-", s)
    /\ UNCHANGED <<page, cont>>

ImagesSetVisible ==
    /\ page = "images" /\ ~crashed
    /\ \E in \in InputsFor("-") :
          LET s == Images_set_visible(img, daemon, in)
          IN  img' = s.p /\ Finish("set_visible", "-", s)
    /\ UNCHANGED <<page, cont>>

ImagesSetInvisible ==
    /\ page = "images" /\ ~crashed
    /\ LET s == Images_set_invisible(img, daemon)
       IN  img' = s.p /\ Finish("set_invisible", "-", s)
    /\ UNCHANGED <<page, cont>>

Next ==
    \/ DaemonChange
    \/ ContainersUpdate
    \/ ContainersInitialise
    \/ ContainersSetVisible
    \/ ContainersSetInvisible
    \/ ImagesUpdate
    \/ ImagesInitialise
    \/ ImagesSetVisible
    \/ ImagesSetInvisible

Spec == Init /\ [][Next]_vars

(* Scenario A: a containers page in front of a daemon that holds three     *)
(* containers and that no other client changes.                            *)

ScenarioInit ==
    /\ page = "containers"
    /\ daemon = <<1, 2, 3>>
    /\ cont = Containers_new
    /\ img = Images_new
    /\ crashed = FALSE
    /\ ev = NoEvent("new")

ScenarioNext ==
    \/ ContainersUpdate
    \/ ContainersInitialise
    \/ ContainersSetVisible
    \/ ContainersSetInvisible

ScenarioSpec == ScenarioInit /\ [][ScenarioNext]_vars

(* The containers page with its backend calls in flight. A step is what    *)
(* update does from one .await on the daemon to the next: ev is the record *)
(* of the running call, its resp is Pending until update returns, and a    *)
(* call the daemon has not answered yet has res Pending. The page's fields *)
(* and the daemon's list show the call's effects when it returns. No other *)
(* client changes the daemon.                                              *)

\* A receiver that is not borrowed exclusively.
Exclusive_shared(e) == TRUE

\* update(&mut self, ..): the future of a call borrows the page exclusively
\* until it returns, so no method of the page is entered while one runs.
Exclusive(e) == e.resp /= "Pending"

\* The calls the daemon has not answered yet.
InFlight(calls) == { i \in 1..Len(calls) : calls[i].res = "Pending" }

Outstanding(calls) == SelectSeq(calls, LAMBDA c : c.res = "Pending")

Sent(c) == [ c EXCEPT !.res = "Pending" ]

\* The host calls update: it returns at once on an invisible page, and
\* otherwise runs to its first .await, the list call of refresh.
FlightAccept ==
    /\ page = "containers" /\ ~crashed /\ Exclusive(ev)
    /\ \E key \in Keys : \E in \in InputsFor(key) :
          LET s == Containers_update(cont, daemon, key, in)
          IN  IF s.calls = <<>>
              THEN cont' = s.p /\ Finish("update", key, s)
              ELSE /\ ev' = [ op |-> "update", key |-> key, resp |-> "Pending",
                              calls |-> Outstanding(ev.calls) \o << Sent(s.calls[1]) >>,
                              trace |-> <<cont.modal>> ]
                   /\ UNCHANGED <<cont, daemon, crashed>>
    /\ UNCHANGED <<page, img>>

\* The daemon answers the call in flight and update runs on, to its next
\* .await or to its return.
FlightReply ==
    /\ page = "containers" /\ ~crashed /\ ev.resp = "Pending"
    /\ \E in \in InputsFor(ev.key) :
          LET s == Containers_update(cont, daemon, ev.key, in)
              n == Len(ev.calls)
          IN  /\ Len(s.calls) >= n
              /\ \A i \in 1..(n - 1) : s.calls[i] = ev.calls[i]
              /\ Sent(s.calls[n]) = ev.calls[n]
              /\ IF Len(s.calls) > n
                 THEN /\ ev' = [ ev EXCEPT !.calls = SubSeq(s.calls, 1, n)
                                                     \o << Sent(s.calls[n + 1]) >> ]
                      /\ UNCHANGED <<cont, daemon, crashed>>
                 ELSE cont' = s.p /\ Finish("update", ev.key, s)
    /\ UNCHANGED <<page, img>>

FlightInitialise == Exclusive(ev) /\ ContainersInitialise

FlightSetVisible == Exclusive(ev) /\ ContainersSetVisible

FlightSetInvisible == Exclusive(ev) /\ ContainersSetInvisible

FlightInit == Init /\ page = "containers"

FlightNext ==
    \/ FlightAccept
    \/ FlightReply
    \/ FlightInitialise
    \/ FlightSetVisible
    \/ FlightSetInvisible

FlightSpec == FlightInit /\ [][FlightNext]_vars

(* ------------------------------ properties ---------------------------- *)

\* The fields of the page this behaviour exercises.
Cur == IF page = "containers" THEN cont ELSE img

\* The dialog state a modal value stands for: Closed, Open or Resolved.
Dialog(m) ==
    IF page = "containers"
    THEN CASE m.state = "Invisible" -> "Closed"
           [] m.state = "Waiting" -> "Open"
           [] m.state = "Complete" -> "Resolved"
    ELSE IF IsSome(m) THEN Get(m).state ELSE "Closed"

NavKeys == { UP_KEY, K_KEY, DOWN_KEY, J_KEY, G_KEY, SHIFT_G_KEY }

Mutations == { "remove", "start", "stop", "attach" }

\* The calls of the last event that satisfy Test.
CallsWhere(Test(_)) == { i \in 1..Len(ev.calls) : Test(ev.calls[i]) }

IsRemove(c) == c.op = "remove"

IsFailedMutation(c) == c.op \in Mutations /\ c.res /= "Ok"

\* C1: a step that shrinks the snapshot while an index is selected leaves the
\* index at most len-1, or None when the snapshot is now empty.
C1_ShrinkClampsIndex ==
    [][ (Len(Cur'.list) < Len(Cur.list) /\ IsSome(Cur.selected)) =>
            IF Len(Cur'.list) = 0
            THEN Cur'.selected = None
            ELSE /\ IsSome(Cur'.selected)
                 /\ 0 <= Get(Cur'.selected)
                 /\ Get(Cur'.selected) <= Len(Cur'.list) - 1 ]_vars

\* C2: every remove an update of the containers page issues is issued from
\* the waiting modal and names the container that modal was opened on.
C2_RemoveTargetsCaptured ==
    (page = "containers" /\ ev.op = "update") =>
        \A i \in CallsWhere(IsRemove) :
            /\ ev.trace[1].state = "Waiting"
            /\ ev.calls[i].id = Get(ev.trace[1].message)

\* C3: an update that takes the affirmative key in a waiting modal and ends
\* with the modal closed has called remove exactly once.
C3_RemoveExactlyOnce ==
    ( /\ page = "containers" /\ ev.op = "update" /\ ev.key = YES_KEY
      /\ ev.trace[1].state = "Waiting"
      /\ cont.modal.state = "Invisible" ) =>
        Cardinality(CallsWhere(IsRemove)) = 1

\* C4: after a mutating call of the containers page fails, the page has not
\* crashed, the call returned an Err, and the snapshot is the one the refresh
\* before the call fetched (the daemon's list, which the failure left alone).
C4_FailedMutationRecoverable ==
    (page = "containers" /\ CallsWhere(IsFailedMutation) /= {}) =>
        /\ ~crashed
        /\ ev.resp = "Err"
        /\ cont.list = daemon

\* C5: a call whose list call fails returns an Err and leaves the snapshot
\* and the selection as they were when that refresh began: for the refresh
\* that opens update, the values before the call (initialise selects 0 just
\* before it refreshes); for the refresh after a mutation, the snapshot the
\* first refresh fetched and the selection before the call.
C5_FailedRefreshKeepsPage ==
    [][ \A i \in 1..Len(ev'.calls) :
            (ev'.calls[i].op = "list" /\ ev'.calls[i].res /= "Ok") =>
                /\ ev'.resp = "Err"
                /\ Cur'.list = (IF i = 1 THEN Cur.list ELSE daemon)
                /\ Cur'.selected =
                      (IF ev'.op = "update" THEN Cur.selected ELSE Some(0)) ]_vars

\* C5 witness: an update whose list call failed still shows a non-empty
\* snapshot that is no longer the daemon's list.
C5_Witness ==
    /\ ev.op = "update"
    /\ ev.calls /= <<>> /\ ev.calls[1].res = "Unavailable"
    /\ Cur.list /= <<>> /\ Cur.list /= daemon
    /\ Cur.selected = Some(1)

\* C6: no update of the containers page ends with the modal Complete.
C6_CompleteIsDrained ==
    (page = "containers" /\ ev.op = "update") => cont.modal.state /= "Complete"

\* C7: every change of the dialog inside a call is Closed to Open, Open to
\* Resolved or Resolved to Closed.
C7_DialogCycle ==
    \A i \in 1..(Len(ev.trace) - 1) :
        <<Dialog(ev.trace[i]), Dialog(ev.trace[i + 1])>> \in
            { <<"Closed", "Open">>, <<"Open", "Resolved">>, <<"Resolved", "Closed">> }

\* C8: an update that begins with the dialog Open leaves the selection as
\* it was and issues no start, stop or attach.
C8_OpenDialogTakesEveryKey ==
    [][ (ev'.op = "update" /\ Dialog(Cur.modal) = "Open") =>
            /\ Cur'.selected = Cur.selected
            /\ \A i \in 1..Len(ev'.calls) :
                   ev'.calls[i].op \notin {"start", "stop", "attach"} ]_vars

\* C8 witness: a navigation or action key arrived while the dialog was Open
\* over a list with more than one row, and the dialog is still Open.
C8_Witness ==
    /\ ev.op = "update"
    /\ ev.key \in NavKeys \cup {R_KEY, S_KEY, A_KEY, D_KEY, CTRL_D_KEY}
    /\ ev.calls /= <<>> /\ ev.calls[1].res = "Ok"
    /\ Dialog(ev.trace[1]) = "Open"
    /\ Dialog(Cur.modal) = "Open"
    /\ Len(Cur.list) > 1

\* C9: an update of a page that is not visible returns NotConsumed, calls
\* nothing on the daemon and changes no field of the page.
C9_InvisiblePageIgnoresEvents ==
    [][ (ev'.op = "update" /\ ~Cur.visible) =>
            /\ ev'.resp = "NotConsumed"
            /\ ev'.calls = <<>>
            /\ Cur' = Cur
            /\ daemon' = daemon ]_vars

\* C9 witness: a hidden page, holding a stale snapshot and an open dialog,
\* was given a key.
C9_Witness ==
    /\ ev.op = "update"
    /\ ~Cur.visible
    /\ ev.resp = "NotConsumed"
    /\ Cur.list /= daemon
    /\ Dialog(Cur.modal) = "Open"

\* C10: after a move or jump key is dispatched to the containers page over
\* an empty snapshot, the selection is None.
C10_EmptyListKeepsNone ==
    ( /\ page = "containers" /\ ev.op = "update" /\ ev.key \in NavKeys
      /\ ev.trace[1].state = "Invisible"
      /\ ev.calls /= <<>> /\ ev.calls[1].res = "Ok"
      /\ cont.list = <<>> ) =>
        cont.selected = None

\* C11: after down/j is dispatched over a non-empty snapshot of length N the
\* selection is an index in 0..N-1 (it has neither wrapped nor passed N-1).
C11_MoveDownStaysInBounds ==
    ( /\ ev.op = "update" /\ ev.key \in {DOWN_KEY, J_KEY}
      /\ Dialog(ev.trace[1]) = "Closed" /\ ev.resp = "Consumed"
      /\ Cur.list /= <<>> ) =>
        /\ IsSome(Cur.selected)
        /\ 0 <= Get(Cur.selected)
        /\ Get(Cur.selected) <= Len(Cur.list) - 1

\* Every backend call of a call record succeeded, and there was one.
AllOk(calls) == calls /= <<>> /\ \A i \in 1..Len(calls) : calls[i].res = "Ok"

\* C12: with snapshot [c1, c2, c3] (the daemon's list) and index 1, and every
\* backend call succeeding: delete opens the modal on c2 and changes nothing
\* else; the affirmative key then lists, removes c2 and lists again, and
\* leaves snapshot [c1, c3], index 1 (the record there is c3) and the modal
\* closed.
C12_ScenarioA ==
    [][ ( /\ ev'.op = "update" /\ AllOk(ev'.calls)
          /\ cont.visible /\ cont.list = <<1, 2, 3>> /\ daemon = <<1, 2, 3>>
          /\ cont.selected = Some(1) ) =>
            /\ (cont.modal = Invisible /\ ev'.key = D_KEY) =>
                  /\ cont' = [ cont EXCEPT !.modal = Waiting(2) ]
                  /\ daemon' = daemon
            /\ (cont.modal = Waiting(2) /\ ev'.key = YES_KEY) =>
                  /\ ev'.calls = << Call("list", 0, "Ok"), Call("remove", 2, "Ok"),
                                    Call("list", 0, "Ok") >>
                  /\ daemon' = <<1, 3>>
                  /\ cont'.list = <<1, 3>>
                  /\ cont'.selected = Some(1)
                  /\ VecGet(cont'.list, Get(cont'.selected)) = Some(3)
                  /\ cont'.modal = Invisible ]_vars

\* C12 witness: the affirmative key was taken by the modal opened on c2 over
\* [c1, c2, c3], and c2 is gone.
C12_Witness ==
    /\ ev.op = "update" /\ ev.key = YES_KEY /\ ev.resp = "Consumed"
    /\ ev.trace[1] = Waiting(2)
    /\ Len(ev.calls) = 3 /\ ev.calls[2] = Call("remove", 2, "Ok")
    /\ cont.list = <<1, 3>> /\ cont.selected = Some(1)

\* An update of the visible containers page that starts with the modal
\* waiting and is given the negative key.
NegativeStep ==
    /\ page = "containers" /\ ev'.op = "update" /\ ev'.key = NO_KEY
    /\ cont.visible /\ cont.modal.state = "Waiting"

\* C13 (as stated): the negative key on an open dialog leaves the dialog
\* closed, makes no backend call and leaves the snapshot as it was.
C13_NegativeKeyNoBackendCall ==
    [][ NegativeStep =>
            /\ cont'.modal = Invisible
            /\ ev'.calls = <<>>
            /\ cont'.list = cont.list ]_vars

\* C13 (amended): the negative key on an open dialog of the containers page
\* makes exactly one backend call, the list call of the refresh update starts
\* with, and no mutating call, and the daemon is untouched; when that list
\* call succeeds the key is consumed, the dialog is closed, the index is kept
\* and the snapshot is the list just fetched; when it fails the page is left
\* as it was, dialog open.
C13_NegativeKeyNoMutation ==
    [][ NegativeStep =>
            /\ Len(ev'.calls) = 1 /\ ev'.calls[1].op = "list"
            /\ daemon' = daemon
            /\ IF ev'.calls[1].res = "Ok"
               THEN /\ ev'.resp = "Consumed"
                    /\ cont'.modal = Invisible
                    /\ cont'.selected = cont.selected
                    /\ cont'.list = daemon
               ELSE /\ ev'.resp = "Err"
                    /\ cont' = cont ]_vars

\* C13 witness: the negative key was taken by a waiting modal after a
\* refresh that succeeded, and the modal is closed.
C13_Witness ==
    /\ page = "containers" /\ ev.op = "update" /\ ev.key = NO_KEY
    /\ ev.trace[1].state = "Waiting" /\ ev.resp = "Consumed"
    /\ ev.calls = << Call("list", 0, "Ok") >>
    /\ cont.modal = Invisible /\ cont.list /= <<>>

IsMutation(c) == c.op \in Mutations

\* C14: while a mutating call of the containers page is in flight no other
\* call of the page is, so no other event has been accepted; an event makes
\* at most one mutating call; and a remove belongs to an event that took the
\* affirmative key in a waiting modal and that does not return with the modal
\* still waiting, so a second confirmation finds no dialog to confirm.
C14_OneMutationInFlight ==
    /\ \A i \in InFlight(ev.calls) :
          IsMutation(ev.calls[i]) => InFlight(ev.calls) = {i}
    /\ Cardinality(CallsWhere(IsMutation)) <= 1
    /\ \A i \in CallsWhere(IsRemove) :
          /\ ev.key = YES_KEY
          /\ ev.trace[1].state = "Waiting"
          /\ ev.resp /= "Pending" => cont.modal.state /= "Waiting"

\* C14 witness: a remove is in flight.
C14_Witness ==
    \E i \in InFlight(ev.calls) : ev.calls[i].op = "remove" /\ ev.key = YES_KEY

\* The keys a page's update has an arm for while no dialog is open.
BoundKeys ==
    IF page = "containers"
    THEN { UP_KEY, K_KEY, DOWN_KEY, J_KEY, D_KEY, R_KEY, S_KEY, A_KEY, G_KEY,
           SHIFT_G_KEY }
    ELSE { UP_KEY, K_KEY, DOWN_KEY, J_KEY, CTRL_D_KEY }

\* An update of a visible page whose dialog is closed, given a key the page
\* has no arm for.
UnboundStep ==
    /\ ev'.op = "update" /\ ev'.key \notin BoundKeys
    /\ Cur.visible /\ Dialog(Cur.modal) = "Closed"

\* C15 (as stated): on a visible page with the dialog closed a key that is
\* not a navigation or action key returns NotConsumed, changes neither the
\* index nor the dialog state and issues no mutating call.
C15_UnboundKeyNotConsumed ==
    [][ UnboundStep =>
            /\ ev'.resp = "NotConsumed"
            /\ Cur'.selected = Cur.selected
            /\ Cur'.modal = Cur.modal
            /\ \A i \in 1..Len(ev'.calls) : ~IsMutation(ev'.calls[i]) ]_vars

\* C15 (amended): such a key changes neither the index nor the dialog state
\* and the only backend call is the list call update starts with; update
\* returns NotConsumed when that list call succeeds and its error otherwise.
C15_UnboundKeyIgnored ==
    [][ UnboundStep =>
            /\ Len(ev'.calls) = 1 /\ ev'.calls[1].op = "list"
            /\ ev'.resp = IF ev'.calls[1].res = "Ok" THEN "NotConsumed" ELSE "Err"
            /\ Cur'.selected = Cur.selected
            /\ Cur'.modal = Cur.modal
            /\ daemon' = daemon ]_vars

\* C15 witness: a key the page has no arm for came back NotConsumed from a
\* visible page with a closed dialog and a selected row.
C15_Witness ==
    /\ ev.op = "update" /\ ev.key \notin BoundKeys /\ ev.resp = "NotConsumed"
    /\ Cur.visible /\ Dialog(ev.trace[1]) = "Closed"
    /\ ev.calls = << Call("list", 0, "Ok") >>
    /\ Cur.list /= <<>> /\ IsSome(Cur.selected)

\* C16: on the visible containers page with the modal closed and a refresh
\* that succeeds, g leaves the index at 0 and shift-g at len-1 over a
\* non-empty snapshot; over an empty snapshot either key leaves the index as
\* it was, and neither ends in a failure.
C16_JumpIsSafeOnEmpty ==
    [][ ( /\ page = "containers" /\ ev'.op = "update"
          /\ ev'.key \in {G_KEY, SHIFT_G_KEY}
          /\ cont.visible /\ cont.modal = Invisible
          /\ ev'.calls = << Call("list", 0, "Ok") >> ) =>
            /\ ~crashed'
            /\ ev'.resp = "Consumed"
            /\ cont'.selected =
                  IF cont'.list = <<>> THEN cont.selected
                  ELSE IF ev'.key = G_KEY THEN Some(0)
                  ELSE Some(Len(cont'.list) - 1) ]_vars

\* The part of C16 about a non-empty snapshot, which the code satisfies.
C16_JumpOnNonEmpty ==
    [][ ( /\ page = "containers" /\ ev'.op = "update"
          /\ ev'.key \in {G_KEY, SHIFT_G_KEY}
          /\ cont.visible /\ cont.modal = Invisible
          /\ ev'.calls = << Call("list", 0, "Ok") >>
          /\ cont'.list /= <<>> ) =>
            /\ ~crashed'
            /\ ev'.resp = "Consumed"
            /\ cont'.selected =
                  IF ev'.key = G_KEY THEN Some(0) ELSE Some(Len(cont'.list) - 1) ]_vars

IsOkMutation(c) == c.op \in Mutations /\ c.res = "Ok"

\* C17 (as stated): after an update of the containers page that made a
\* successful mutating call, a list call follows that call and the snapshot
\* is the daemon's list as the mutation left it.
C17_MutationThenFreshSnapshot ==
    (page = "containers" /\ ev.op = "update") =>
        \A i \in CallsWhere(IsOkMutation) :
            /\ \E j \in (i + 1)..Len(ev.calls) : ev.calls[j].op = "list"
            /\ cont.list = daemon

\* C17 (amended): a successful mutating call of an update of the containers
\* page is followed at once by the list call of a refresh, the last call of
\* the update; when that list call succeeds the snapshot is the daemon's
\* list after the mutation, and when it fails the update returns the error
\* and the snapshot is the one fetched before the mutation.
C17_MutationThenRefresh ==
    [][ (page = "containers" /\ ev'.op = "update") =>
            \A i \in { k \in 1..Len(ev'.calls) : IsOkMutation(ev'.calls[k]) } :
                /\ Len(ev'.calls) = i + 1
                /\ ev'.calls[i + 1].op = "list"
                /\ IF ev'.calls[i + 1].res = "Ok"
                   THEN cont'.list = daemon' /\ ev'.resp = "Consumed"
                   ELSE cont'.list = daemon /\ ev'.resp = "Err" ]_vars

\* C17 witness: a start or a stop succeeded and the refresh after it
\* succeeded.
C17_Witness ==
    /\ page = "containers" /\ ev.op = "update" /\ ev.resp = "Consumed"
    /\ Len(ev.calls) = 3
    /\ ev.calls[2].op \in {"start", "stop"} /\ ev.calls[2].res = "Ok"
    /\ ev.calls[3] = Call("list", 0, "Ok")

IsRejectedMutation(c) == c.op \in Mutations /\ c.res \in {"NotFound", "Conflict"}

\* C18: in an update of the containers page a mutating call that fails with
\* NotFound or Conflict is followed, before the update returns, by the list
\* call of a refresh.
C18_FailedMutationRefreshes ==
    (page = "containers" /\ ev.op = "update") =>
        \A i \in CallsWhere(IsRejectedMutation) :
            \E j \in (i + 1)..Len(ev.calls) : ev.calls[j].op = "list"

\* C19: an update of the containers page given the attach key never calls
\* stop, and the mutating call it makes is attach; one given the stop key
\* never calls attach, and the mutating call it makes is stop.
C19_AttachIsNotStop ==
    (page = "containers" /\ ev.op = "update" /\ ev.trace[1] = Invisible) =>
        /\ ev.key = A_KEY =>
              \A i \in CallsWhere(IsMutation) : ev.calls[i].op = "attach"
        /\ ev.key = S_KEY =>
              \A i \in CallsWhere(IsMutation) : ev.calls[i].op = "stop"

\* The part of C19 about the stop key, which the code satisfies.
C19_StopIsStop ==
    (page = "containers" /\ ev.op = "update" /\ ev.trace[1] = Invisible
        /\ ev.key = S_KEY) =>
            \A i \in CallsWhere(IsMutation) : ev.calls[i].op = "stop"

\* C20: every update of a visible page starts with the list call of a
\* refresh; when that call fails it is the update's only backend call, the
\* update returns the error, and the page (index, dialog with its prompt,
\* snapshot) and the daemon are as they were.
C20_FailedRefreshStopsUpdate ==
    [][ (ev'.op = "update" /\ Cur.visible) =>
            /\ ev'.calls /= <<>>
            /\ ev'.calls[1].op = "list"
            /\ ev'.calls[1].res /= "Ok" =>
                  /\ Len(ev'.calls) = 1
                  /\ ev'.resp = "Err"
                  /\ ~crashed'
                  /\ Cur' = Cur
                  /\ daemon' = daemon ]_vars

\* C20 witness: the affirmative key met a failed refresh and the dialog it
\* was meant for is still open.
C20_Witness ==
    /\ ev.op = "update" /\ ev.key = YES_KEY /\ ev.resp = "Err"
    /\ ev.calls = << Call("list", 0, "Unavailable") >>
    /\ Cur.visible /\ Dialog(Cur.modal) = "Open" /\ Dialog(ev.trace[1]) = "Open"

\* The key a page opens its delete dialog with.
DeleteKey == IF page = "containers" THEN D_KEY ELSE CTRL_D_KEY

\* The selection designates no record of the snapshot: no index, or an index
\* outside 0..len-1 (a negative value stands for one near usize::MAX).
Unresolved(p) ==
    \/ ~IsSome(p.selected)
    \/ Get(p.selected) < 0
    \/ Get(p.selected) >= Len(p.list)

\* An update of a visible page whose dialog is closed, given the delete key.
DeleteStep ==
    /\ ev'.op = "update" /\ ev'.key = DeleteKey
    /\ Cur.visible /\ Dialog(Cur.modal) = "Closed"

\* C21 (as stated): the delete key pressed while the dialog is closed and the
\* selection resolves to no record returns NotConsumed, leaves the dialog as
\* it is and issues no remove.
C21_UnresolvedDeleteNotConsumed ==
    [][ (DeleteStep /\ Unresolved(Cur)) =>
            /\ ev'.resp = "NotConsumed"
            /\ Cur'.modal = Cur.modal
            /\ \A i \in 1..Len(ev'.calls) : ~IsRemove(ev'.calls[i]) ]_vars

\* C21 (amended): the delete key pressed while the dialog is closed issues
\* only the list call of the refresh update starts with, never a remove;
\* when that call fails update returns the error and the page is as it was;
\* when it succeeds and the selection resolves to no record of the snapshot
\* just fetched, update returns NotConsumed and leaves dialog and index as
\* they were.
C21_UnresolvedDeleteIgnored ==
    [][ DeleteStep =>
            /\ Len(ev'.calls) = 1 /\ ev'.calls[1].op = "list"
            /\ daemon' = daemon
            /\ IF ev'.calls[1].res /= "Ok"
               THEN ev'.resp = "Err" /\ Cur' = Cur
               ELSE Unresolved([ Cur EXCEPT !.list = daemon ]) =>
                       /\ ev'.resp = "NotConsumed"
                       /\ Cur' = [ Cur EXCEPT !.list = daemon ] ]_vars

\* C21 witness: the delete key came back NotConsumed from a visible page
\* whose index is past the end of a non-empty snapshot, dialog closed.
C21_Witness ==
    /\ ev.op = "update" /\ ev.key = DeleteKey /\ ev.resp = "NotConsumed"
    /\ ev.calls = << Call("list", 0, "Ok") >>
    /\ Cur.visible /\ Dialog(ev.trace[1]) = "Closed" /\ Dialog(Cur.modal) = "Closed"
    /\ Cur.list /= <<>> /\ IsSome(Cur.selected) /\ Unresolved(Cur)

\* The reading of C21 over the snapshot the key is handled with.
C21_UnresolvedAtDispatch ==
    [][ (DeleteStep /\ Unresolved(Cur')) =>
            /\ ev'.resp = "NotConsumed"
            /\ Cur'.modal = Cur.modal
            /\ \A i \in 1..Len(ev'.calls) : ~IsRemove(ev'.calls[i]) ]_vars

\* C22: set_invisible changes the visible flag and nothing else and calls
\* nothing; set_visible sets the flag, sets the index to 0 and makes the one
\* list call of a refresh, which replaces the snapshot when it succeeds;
\* neither changes the modal, so an open dialog keeps its state and prompt.
C22_VisibilityKeepsDialog ==
    [][ /\ ev'.op = "set_invisible" =>
              /\ Cur' = [ Cur EXCEPT !.visible = FALSE ]
              /\ ev'.calls = <<>> /\ ev'.resp = "Ok"
              /\ daemon' = daemon
        /\ ev'.op = "set_visible" =>
              /\ Len(ev'.calls) = 1 /\ ev'.calls[1].op = "list"
              /\ daemon' = daemon
              /\ Cur'.modal = Cur.modal
              /\ Cur' = [ Cur EXCEPT !.visible = TRUE, !.selected = Some(0),
                                     !.list = IF ev'.calls[1].res = "Ok"
                                              THEN daemon ELSE @ ]
              /\ ev'.resp = IF ev'.calls[1].res = "Ok" THEN "Ok" ELSE "Err" ]_vars

\* C22 witness: set_visible has run on a page whose dialog was open, its
\* refresh succeeded, and the dialog is open.
C22_Witness ==
    /\ ev.op = "set_visible" /\ ev.resp = "Ok"
    /\ Cur.visible /\ Dialog(Cur.modal) = "Open" /\ Dialog(ev.trace[1]) = "Open"
    /\ Cur.selected = Some(0) /\ Cur.list = daemon

====
